---- MODULE Spec2Model ----
(***************************************************************************)
(* Model of the dev-events persistence layer:                              *)
(*   - connectToDatabase and its process-wide cache (lib/mongodb),         *)
(*   - the Event model's pre-save hook (slug, date, time normalisation),   *)
(*   - the two Booking model definitions and their pre-save hooks.         *)
(* Strings are sequences of one-character strings, so that the string      *)
(* functions of the hooks are computed character by character.             *)
(***************************************************************************)
EXTENDS Integers, Sequences, FiniteSets, TLC

VARIABLES
    cached,        \* MongooseCache: [conn, promise]
    attempts,      \* the promises mongoose.connect has returned, by attempt number
    calls,         \* the connectToDatabase invocations, by caller
    registered,    \* which Booking schema mongoose.models.Booking holds
    eventStore,    \* the Event collection: _id -> stored document, if any
    bookingStore,  \* the Booking collection: _id -> stored document, if any
    bdoc,          \* the in-memory Booking documents, by _id
    edoc,          \* the in-memory Event documents, by _id
    arg,           \* input of the string function under check
    res            \* its result

vars == <<cached, attempts, calls, registered, eventStore, bookingStore, bdoc, edoc, arg, res>>

connVars == <<cached, attempts, calls>>
dbVars == <<registered, eventStore, bookingStore, bdoc, edoc>>
pureVars == <<arg, res>>

\* Bounds of the model.
MaxCallers == 4
MaxTitleLen == 4

(***************************************************************************)
(* Connection manager                                                      *)
(***************************************************************************)
Callers == 1..MaxCallers

\* A nullable reference to attempt k (a promise, or the handle it resolves
\* with) is {k}; null is {}.
None == {}
Ref(k) == {k}
Deref(r) == CHOOSE k \in r : TRUE

\* A caller that has not called yet.
IdleCall == [pc |-> "idle", awaited |-> None, connAtCall |-> None,
             started |-> FALSE, result |-> None, error |-> None]

\* `const cached = global.mongoose ?? { conn: null, promise: null }`
ConnInit ==
    /\ cached = [conn |-> None, promise |-> None]
    /\ attempts = << >>
    /\ calls = [c \in Callers |-> IdleCall]

\* `if (!cached.promise)`: a new attempt is started only when none is cached.
NeedsAttemptNoCheck == TRUE
NeedsAttempt == cached.promise = None

\* connectToDatabase up to its first suspension: return the cached handle, or
\* start an attempt if none is cached, and await the cached promise.
Connect(c) ==
    /\ calls[c].pc = "idle"
    /\ IF cached.conn # None
       THEN /\ calls' = [calls EXCEPT ![c] = [@ EXCEPT !.pc = "returned",
                             !.connAtCall = cached.conn, !.result = cached.conn]]
            /\ UNCHANGED <<cached, attempts>>
       ELSE IF NeedsAttempt
       THEN /\ attempts' = Append(attempts, "pending")
            /\ cached' = [cached EXCEPT !.promise = Ref(Len(attempts) + 1)]
            /\ calls' = [calls EXCEPT ![c] = [@ EXCEPT !.pc = "awaiting",
                             !.awaited = Ref(Len(attempts) + 1), !.started = TRUE]]
       ELSE /\ calls' = [calls EXCEPT ![c] = [@ EXCEPT !.pc = "awaiting",
                             !.awaited = cached.promise]]
            /\ UNCHANGED <<cached, attempts>>
    /\ UNCHANGED <<dbVars, pureVars>>

\* mongoose.connect settles: the promise resolves with the handle or rejects.
Settle(k, outcome) ==
    /\ k \in 1..Len(attempts)
    /\ attempts[k] = "pending"
    /\ attempts' = [attempts EXCEPT ![k] = outcome]
    /\ UNCHANGED <<cached, calls, dbVars, pureVars>>

\* `cached.conn = await cached.promise; return cached.conn;`
\* A rejected promise throws at the await: nothing is assigned.
Resume(c) ==
    /\ calls[c].pc = "awaiting"
    /\ attempts[Deref(calls[c].awaited)] # "pending"
    /\ IF attempts[Deref(calls[c].awaited)] = "resolved"
       THEN /\ cached' = [cached EXCEPT !.conn = calls[c].awaited]
            /\ calls' = [calls EXCEPT ![c] = [@ EXCEPT !.pc = "returned",
                             !.result = calls[c].awaited]]
       ELSE /\ calls' = [calls EXCEPT ![c] = [@ EXCEPT !.pc = "failed",
                             !.error = calls[c].awaited]]
            /\ UNCHANGED cached
    /\ UNCHANGED <<attempts, dbVars, pureVars>>

(***************************************************************************)
(* Strings                                                                 *)
(***************************************************************************)
UpperLetters == <<"A","B","C","D","E","F","G","H","I","J","K","L","M",
                  "N","O","P","Q","R","S","T","U","V","W","X","Y","Z">>
LowerLetters == <<"a","b","c","d","e","f","g","h","i","j","k","l","m",
                  "n","o","p","q","r","s","t","u","v","w","x","y","z">>
DigitChars == <<"0","1","2","3","4","5","6","7","8","9">>

Range(f) == {f[i] : i \in DOMAIN f}
IsDigit(c) == c \in Range(DigitChars)
IsLower(c) == c \in Range(LowerLetters)
IsUpper(c) == c \in Range(UpperLetters)
\* The characters of the model's alphabets that the regular expression class \s holds.
IsSpace(c) == c \in {" ", "\t", "\n"}

\* String.prototype.toLowerCase, on the ASCII letters.
LowerChar(c) ==
    IF IsUpper(c) THEN LowerLetters[CHOOSE i \in DOMAIN UpperLetters : UpperLetters[i] = c]
    ELSE c
UpperChar(c) ==
    IF IsLower(c) THEN UpperLetters[CHOOSE i \in DOMAIN LowerLetters : LowerLetters[i] = c]
    ELSE c
ToLowerCase(s) == [i \in DOMAIN s |-> LowerChar(s[i])]
ToUpperCase(s) == [i \in DOMAIN s |-> UpperChar(s[i])]

RECURSIVE TrimStart(_)
TrimStart(s) == IF s # << >> /\ IsSpace(Head(s)) THEN TrimStart(Tail(s)) ELSE s
RECURSIVE TrimEnd(_)
TrimEnd(s) ==
    IF s # << >> /\ IsSpace(s[Len(s)]) THEN TrimEnd(SubSeq(s, 1, Len(s) - 1)) ELSE s
\* String.prototype.trim
Trim(s) == TrimEnd(TrimStart(s))

\* The value of a string of decimal digits: parseInt(s, 10).
DigitValue(c) == (CHOOSE i \in DOMAIN DigitChars : DigitChars[i] = c) - 1
RECURSIVE ParseInt(_)
ParseInt(s) ==
    IF s = << >> THEN 0
    ELSE 10 * ParseInt(SubSeq(s, 1, Len(s) - 1)) + DigitValue(s[Len(s)])

\* String(n) for a natural number n.
RECURSIVE NatToString(_)
NatToString(n) ==
    IF n < 10 THEN <<DigitChars[n + 1]>>
    ELSE NatToString(n \div 10) \o <<DigitChars[(n % 10) + 1]>>

\* String.prototype.padStart(width, "0")
RECURSIVE PadStart(_, _)
PadStart(s, width) == IF Len(s) >= width THEN s ELSE PadStart(<<"0">> \o s, width)

AllDigits(s) == \A i \in DOMAIN s : IsDigit(s[i])

(***************************************************************************)
(* Event model: slug derivation                                            *)
(***************************************************************************)
\* .replace(/[^a-z0-9\s-]/g, "")
SlugKeeps(c) == IsLower(c) \/ IsDigit(c) \/ IsSpace(c) \/ c = "-"
StripNonSlug(s) == SelectSeq(s, SlugKeeps)

\* .replace(/\s+/g, "-"): each maximal run of whitespace becomes one hyphen.
RECURSIVE HyphenateEveryNoCollapse(_)
HyphenateEveryNoCollapse(s) ==
    IF s = << >> THEN << >>
    ELSE IF IsSpace(Head(s)) THEN <<"-">> \o HyphenateEveryNoCollapse(Tail(s))
    ELSE <<Head(s)>> \o HyphenateEveryNoCollapse(Tail(s))
RECURSIVE HyphenateRuns(_)
HyphenateRuns(s) ==
    IF s = << >> THEN << >>
    ELSE IF IsSpace(Head(s)) THEN <<"-">> \o HyphenateRuns(TrimStart(s))
    ELSE <<Head(s)>> \o HyphenateRuns(Tail(s))

\* this.title.toLowerCase().replace(...).trim().replace(...)
Slugify(title) == HyphenateRuns(Trim(StripNonSlug(ToLowerCase(title))))

(***************************************************************************)
(* Event model: time normalisation                                         *)
(***************************************************************************)
NoMatch == [ok |-> FALSE, hours |-> << >>, minutes |-> << >>, meridiem |-> << >>]

\* The number of digits s starts with.
RECURSIVE LeadingDigits(_)
LeadingDigits(s) ==
    IF s # << >> /\ IsDigit(Head(s)) THEN 1 + LeadingDigits(Tail(s)) ELSE 0

Drop(s, n) == SubSeq(s, n + 1, Len(s))
StartsWithTwoDigits(s) == Len(s) >= 2 /\ IsDigit(s[1]) /\ IsDigit(s[2])

\* (?:\s*(AM|PM))?$ with the i flag, on what follows the minutes and seconds.
MatchMeridiem(hours, minutes, tail) ==
    IF tail = << >> THEN [ok |-> TRUE, hours |-> hours, minutes |-> minutes, meridiem |-> << >>]
    ELSE IF ToUpperCase(TrimStart(tail)) \in {<<"A","M">>, <<"P","M">>}
    THEN [ok |-> TRUE, hours |-> hours, minutes |-> minutes, meridiem |-> TrimStart(tail)]
    ELSE NoMatch

\* (?::\d{2})? then the meridiem, on what follows the minutes.
MatchSeconds(hours, minutes, tail) ==
    IF tail # << >> /\ Head(tail) = ":"
    THEN IF StartsWithTwoDigits(Tail(tail))
         THEN MatchMeridiem(hours, minutes, Drop(tail, 3))
         ELSE NoMatch
    ELSE MatchMeridiem(hours, minutes, tail)

\* s.match(/^(\d{1,2}):(\d{2})(?::\d{2})?(?:\s*(AM|PM))?$/i)
MatchTime(s) ==
    LET n == LeadingDigits(s) IN
    IF n \in {1, 2} /\ Len(s) > n /\ s[n + 1] = ":" /\ StartsWithTwoDigits(Drop(s, n + 1))
    THEN MatchSeconds(SubSeq(s, 1, n), SubSeq(s, n + 2, n + 3), Drop(s, n + 3))
    ELSE NoMatch

\* if (meridiem === "PM" && hours !== 12) hours += 12;
\* if (meridiem === "AM" && hours === 12) hours = 0;
To24HourNoNoonCase(hours, meridiem) ==
    IF meridiem = <<"P","M">> THEN hours + 12
    ELSE IF meridiem = <<"A","M">> /\ hours = 12 THEN 0
    ELSE hours
To24Hour(hours, meridiem) ==
    IF meridiem = <<"P","M">> /\ hours # 12 THEN hours + 12
    ELSE IF meridiem = <<"A","M">> /\ hours = 12 THEN 0
    ELSE hours

\* if (hours > 23 || parseInt(minutes, 10) > 59)
TimeOutOfRange(hours, minutes) == hours > 23 \/ ParseInt(minutes) > 59

\* The time step of the pre-save hook, on this.time: the error thrown, or the
\* value assigned to this.time.
NormalizeTime(time) ==
    LET timeMatch == MatchTime(Trim(time))
        hours == To24Hour(ParseInt(timeMatch.hours), ToUpperCase(timeMatch.meridiem))
    IN  IF ~timeMatch.ok THEN [ok |-> FALSE, error |-> "Invalid time format", value |-> time]
        ELSE IF TimeOutOfRange(hours, timeMatch.minutes)
        THEN [ok |-> FALSE, error |-> "Time out of range", value |-> time]
        ELSE [ok |-> TRUE, error |-> "",
              value |-> PadStart(NatToString(hours), 2) \o <<":">> \o timeMatch.minutes]

(***************************************************************************)
(* Event model: date normalisation                                         *)
(***************************************************************************)
NaN == [valid |-> FALSE, year |-> 0, month |-> 0, day |-> 0]

IsLeapYear(y) == (y % 4 = 0 /\ y % 100 # 0) \/ y % 400 = 0
DaysInMonth(y, m) ==
    IF m = 2 THEN (IF IsLeapYear(y) THEN 29 ELSE 28)
    ELSE IF m \in {4, 6, 9, 11} THEN 30 ELSE 31

\* MakeDay/MakeDate/TimeClip on a calendar date at 00:00 UTC: a day past the
\* month's end runs over into the next month (day <= 31, so by one month at
\* most, and never out of December); a date outside the time value range is NaN.
\* The first and last year of the range, which are only partly inside, count
\* as outside.
MakeDate(y, m, d) ==
    IF y <= -271821 \/ y >= 275760 THEN NaN
    ELSE IF d > DaysInMonth(y, m)
    THEN [valid |-> TRUE, year |-> y, month |-> m + 1, day |-> d - DaysInMonth(y, m)]
    ELSE [valid |-> TRUE, year |-> y, month |-> m, day |-> d]

\* MM-DD after the year of a date-only string.
ParseMonthDay(y, s) ==
    IF /\ Len(s) = 6
       /\ s[1] = "-" /\ AllDigits(SubSeq(s, 2, 3))
       /\ s[4] = "-" /\ AllDigits(SubSeq(s, 5, 6))
       /\ ParseInt(SubSeq(s, 2, 3)) \in 1..12
       /\ ParseInt(SubSeq(s, 5, 6)) \in 1..31
    THEN MakeDate(y, ParseInt(SubSeq(s, 2, 3)), ParseInt(SubSeq(s, 5, 6)))
    ELSE NaN

\* new Date(s) for the date-only forms YYYY-MM-DD and +YYYYYY-MM-DD / -YYYYYY-MM-DD
\* of the Date Time String Format, which are read as UTC. Every other string is
\* taken to be unparseable: the inputs of the model hold no string of another
\* accepted format (the implementation-defined fallback formats are not modelled).
ParseDate(s) ==
    IF Len(s) = 10 /\ AllDigits(SubSeq(s, 1, 4)) THEN ParseMonthDay(ParseInt(SubSeq(s, 1, 4)), Drop(s, 4))
    ELSE IF Len(s) = 13 /\ s[1] = "+" /\ AllDigits(SubSeq(s, 2, 7))
    THEN ParseMonthDay(ParseInt(SubSeq(s, 2, 7)), Drop(s, 7))
    ELSE IF Len(s) = 13 /\ s[1] = "-" /\ AllDigits(SubSeq(s, 2, 7)) /\ ParseInt(SubSeq(s, 2, 7)) # 0
    THEN ParseMonthDay(0 - ParseInt(SubSeq(s, 2, 7)), Drop(s, 7))
    ELSE NaN

\* The year of toISOString: four digits for the years 0 to 9999, else a sign
\* and six digits.
ISOYear(y) ==
    IF y \in 0..9999 THEN PadStart(NatToString(y), 4)
    ELSE IF y < 0 THEN <<"-">> \o PadStart(NatToString(0 - y), 6)
    ELSE <<"+">> \o PadStart(NatToString(y), 6)

\* parsed.toISOString().split("T")[0]
ISODate(parsed) ==
    ISOYear(parsed.year) \o <<"-">> \o PadStart(NatToString(parsed.month), 2)
        \o <<"-">> \o PadStart(NatToString(parsed.day), 2)

\* The date step of the pre-save hook, on this.date.
NormalizeDate(date) ==
    LET parsed == ParseDate(date)
    IN  IF ~parsed.valid THEN [ok |-> FALSE, error |-> "Invalid date value", value |-> date]
        ELSE [ok |-> TRUE, error |-> "", value |-> ISODate(parsed)]

(***************************************************************************)
(* Event model: documents and save                                         *)
(***************************************************************************)
EventIds == {"e1", "e2"}

\* The Event collection holds, per _id, the stored fields of the document, or no
\* document.
NoEvent == [present |-> FALSE, title |-> << >>, slug |-> << >>, date |-> << >>, time |-> << >>]
EventFields(d) ==
    [present |-> TRUE, title |-> d.title, slug |-> d.slug, date |-> d.date, time |-> d.time]

\* No document in memory.
NoEventDoc == [pc |-> "none", title |-> << >>, slug |-> << >>, date |-> << >>, time |-> << >>,
               isNew |-> FALSE, modTitle |-> FALSE, titleAssigned |-> FALSE,
               steps |-> << >>, outcome |-> "none", error |-> ""]

\* steps, outcome and error tell how the last save of the document went; they
\* are forgotten when the document is next assigned to or saved.
Touched(d) == [d EXCEPT !.steps = << >>, !.outcome = "none", !.error = ""]

\* new Event({title, date, time}): the title setter trims (trim: true).
NewEvent(e, title, date, time) ==
    /\ edoc[e].pc = "none"
    /\ ~eventStore[e].present
    /\ edoc' = [edoc EXCEPT ![e] = [NoEventDoc EXCEPT !.pc = "idle", !.title = Trim(title),
                    !.date = date, !.time = time, !.isNew = TRUE, !.modTitle = TRUE,
                    !.titleAssigned = TRUE]]
    /\ UNCHANGED <<connVars, registered, eventStore, bookingStore, bdoc, pureVars>>

\* isModified("title") after doc.title = title. A value that differs from the
\* current one marks the path modified. Whether a value that restores the one
\* the document was loaded or last saved with unmarks the path depends on the
\* Mongoose release: `unmarks` is either.
ModifiedAfterSet(d, saved, title, unmarks) ==
    IF title = d.title THEN d.modTitle
    ELSE IF unmarks /\ ~d.isNew /\ saved.present /\ title = saved.title THEN FALSE
    ELSE TRUE

\* doc.title = title. titleAssigned tells that the title was given another
\* value since the document was loaded or last saved.
SetTitle(e, title, unmarks) ==
    /\ edoc[e].pc = "idle"
    /\ edoc' = [edoc EXCEPT ![e] = [Touched(@) EXCEPT !.title = Trim(title),
                    !.modTitle = ModifiedAfterSet(edoc[e], eventStore[e], Trim(title), unmarks),
                    !.titleAssigned = @ \/ Trim(title) # edoc[e].title]]
    /\ UNCHANGED <<connVars, registered, eventStore, bookingStore, bdoc, pureVars>>

\* doc.date = date; doc.time = time
SetDateTime(e, date, time) ==
    /\ edoc[e].pc = "idle"
    /\ edoc' = [edoc EXCEPT ![e] = [Touched(@) EXCEPT !.date = date, !.time = time]]
    /\ UNCHANGED <<connVars, registered, eventStore, bookingStore, bdoc, pureVars>>

\* `if (this.isNew || this.isModified("title"))`
RegeneratesSlugUnlessModified(d) == ~(d.isNew \/ d.modTitle)
RegeneratesSlug(d) == d.isNew \/ d.modTitle

\* required: true on title, date and time: the empty string fails.
EventValid(d) == d.title # << >> /\ d.date # << >> /\ d.time # << >>

\* eventSchema.pre("save"): the document as the hook leaves it. The steps run
\* in order and a throw ends the hook; what was assigned before stays assigned
\* in memory.
AfterSlugStep(d) ==
    IF RegeneratesSlug(d)
    THEN [d EXCEPT !.slug = Slugify(d.title), !.steps = Append(@, "slug")]
    ELSE d
AfterDateStep(d) ==
    LET r == NormalizeDate(d.date)
    IN  IF r.ok THEN [d EXCEPT !.date = r.value, !.steps = Append(@, "date")]
        ELSE [d EXCEPT !.steps = Append(@, "date"), !.outcome = "failed", !.error = r.error]
AfterTimeStep(d) ==
    LET r == NormalizeTime(d.time)
    IN  IF r.ok THEN [d EXCEPT !.time = r.value, !.steps = Append(@, "time")]
        ELSE [d EXCEPT !.steps = Append(@, "time"), !.outcome = "failed", !.error = r.error]
EventPreSave(d) ==
    LET afterDate == AfterDateStep(AfterSlugStep(d))
    IN  IF afterDate.outcome = "failed" THEN afterDate ELSE AfterTimeStep(afterDate)

\* doc.save() up to the write: validation, then the pre-save hook. A failure
\* rejects the save and nothing is sent to the database.
EventSaveBegin(e) ==
    /\ edoc[e].pc = "idle"
    /\ LET d == Touched(edoc[e])
           hooked == EventPreSave(d)
       IN  edoc' = [edoc EXCEPT ![e] =
                IF ~EventValid(d) THEN [d EXCEPT !.outcome = "failed", !.error = "ValidationError"]
                ELSE IF hooked.outcome = "failed" THEN hooked
                ELSE [hooked EXCEPT !.pc = "persist"]]
    /\ UNCHANGED <<connVars, registered, eventStore, bookingStore, bdoc, pureVars>>

\* unique: true on slug: another stored Event holds this slug.
SlugTaken(e, slug) ==
    \E o \in EventIds \ {e} : eventStore[o].present /\ eventStore[o].slug = slug

\* The write of a save: insertOne of a new document, updateOne of a stored one.
EventPersist(e) ==
    /\ edoc[e].pc = "persist"
    /\ IF ~edoc[e].isNew /\ ~eventStore[e].present
       THEN /\ edoc' = [edoc EXCEPT ![e] = [@ EXCEPT !.pc = "idle", !.outcome = "failed",
                            !.error = "DocumentNotFoundError"]]
            /\ UNCHANGED eventStore
       ELSE IF SlugTaken(e, edoc[e].slug)
       THEN /\ edoc' = [edoc EXCEPT ![e] = [@ EXCEPT !.pc = "idle", !.outcome = "failed",
                            !.error = "ConstraintViolation"]]
            /\ UNCHANGED eventStore
       ELSE /\ eventStore' = [eventStore EXCEPT ![e] = EventFields(edoc[e])]
            /\ edoc' = [edoc EXCEPT ![e] = [@ EXCEPT !.pc = "idle", !.outcome = "saved",
                            !.isNew = FALSE, !.modTitle = FALSE, !.titleAssigned = FALSE]]
    /\ UNCHANGED <<connVars, registered, bookingStore, bdoc, pureVars>>

\* Event.deleteOne({_id: e}): explicit deletion by application code.
DeleteEvent(e) ==
    /\ eventStore[e].present
    /\ eventStore' = [eventStore EXCEPT ![e] = NoEvent]
    /\ UNCHANGED <<connVars, registered, bookingStore, bdoc, edoc, pureVars>>

(***************************************************************************)
(* Booking model                                                           *)
(* The source defines the Booking model twice: "bookingSchema" (basic      *)
(* e-mail pattern, unconditional lookup, no unique index) and              *)
(* "BookingSchema" (stricter e-mail pattern, lookup only for a new or      *)
(* changed eventId, unique index on the pair). `models.Booking || model()` *)
(* keeps the one registered first.                                         *)
(***************************************************************************)
BookingIds == {"b1", "b2"}
Schemas == {"bookingSchema", "BookingSchema"}

NoBooking == [present |-> FALSE, eventId |-> "", email |-> << >>]
BookingFields(d) == [present |-> TRUE, eventId |-> d.eventId, email |-> d.email]

NoBookingDoc == [pc |-> "none", eventId |-> "", email |-> << >>, isNew |-> FALSE,
                 modEventId |-> FALSE, lookup |-> "none", outcome |-> "none", error |-> ""]

\* lookup, outcome and error tell how the last save of the document went; they
\* are forgotten when the document is next assigned to or saved.
Retouched(d) == [d EXCEPT !.lookup = "none", !.outcome = "none", !.error = ""]

\* trim: true, lowercase: true on email.
EmailSetter(v) == ToLowerCase(Trim(v))

Positions(s, c) == {i \in DOMAIN s : s[i] = c}
IsAlnum(c) == IsLower(c) \/ IsUpper(c) \/ IsDigit(c)

\* EMAIL_REGEX = /^[^\s@]+@[^\s@]+\.[^\s@]+$/
EmailValidBasic(v) ==
    \E i \in Positions(v, "@") :
        /\ i >= 2
        /\ \A k \in DOMAIN v \ {i} : ~IsSpace(v[k]) /\ v[k] # "@"
        /\ \E j \in Positions(v, ".") : j >= i + 2 /\ j <= Len(v) - 1

\* The character class of the local part of emailRegex: letters, digits and
\* punctuation marks (the apostrophe and the backquote, also in the class,
\* are in no input of the model).
IsLocalChar(c) ==
    IsAlnum(c) \/ c \in {".", "!", "#", "$", "%", "&", "*", "+", "/", "=", "?", "^",
                         "_", "{", "|", "}", "~", "-"}

\* A domain label of emailRegex: 1 to 63 letters, digits and hyphens, with no
\* hyphen first or last.
IsDomainLabel(l) ==
    /\ Len(l) \in 1..63
    /\ IsAlnum(l[1]) /\ IsAlnum(l[Len(l)])
    /\ \A k \in DOMAIN l : IsAlnum(l[k]) \/ l[k] = "-"

\* The domain of emailRegex: labels separated by dots.
RECURSIVE IsDomain(_)
IsDomain(s) ==
    LET dots == Positions(s, ".")
        first == CHOOSE j \in dots : \A k \in dots : j <= k
    IN  IF dots = {} THEN IsDomainLabel(s)
        ELSE IsDomainLabel(SubSeq(s, 1, first - 1)) /\ IsDomain(Drop(s, first))

\* emailRegex of BookingSchema: local part, "@", dot-separated domain labels.
EmailValidStrict(v) ==
    \E i \in Positions(v, "@") :
        /\ i >= 2
        /\ \A k \in 1..(i - 1) : IsLocalChar(v[k])
        /\ IsDomain(Drop(v, i))

\* required: true, and the validator of the schema.
EmailValid(schema, v) ==
    /\ v # << >>
    /\ IF schema = "BookingSchema" THEN EmailValidStrict(v) ELSE EmailValidBasic(v)

\* new Booking({eventId, email})
NewBooking(b, e, email) ==
    /\ bdoc[b].pc = "none"
    /\ bdoc' = [bdoc EXCEPT ![b] = [NoBookingDoc EXCEPT !.pc = "idle", !.eventId = e,
                    !.email = EmailSetter(email), !.isNew = TRUE, !.modEventId = TRUE]]
    /\ UNCHANGED <<connVars, registered, eventStore, bookingStore, edoc, pureVars>>

\* doc.email = email
SetEmail(b, email) ==
    /\ bdoc[b].pc = "idle"
    /\ bdoc' = [bdoc EXCEPT ![b] = [Retouched(@) EXCEPT !.email = EmailSetter(email)]]
    /\ UNCHANGED <<connVars, registered, eventStore, bookingStore, edoc, pureVars>>

\* doc.eventId = e
SetEventId(b, e) ==
    /\ bdoc[b].pc = "idle"
    /\ bdoc' = [bdoc EXCEPT ![b] = [Retouched(@) EXCEPT !.eventId = e,
                    !.modEventId = @ \/ e # bdoc[b].eventId]]
    /\ UNCHANGED <<connVars, registered, eventStore, bookingStore, edoc, pureVars>>

\* Whether the pre-save hook looks the Event up: always in bookingSchema,
\* `if (booking.isModified('eventId') || booking.isNew)` in BookingSchema.
LooksUp(schema, d) == schema = "bookingSchema" \/ d.modEventId \/ d.isNew

\* The error a hook fails with when the lookup finds no Event: a plain Error
\* in bookingSchema, an Error named ValidationError in BookingSchema.
MissingEventError(schema) == IF schema = "BookingSchema" THEN "ValidationError" ELSE "Error"

\* The error when the lookup itself throws: rethrown as it is by bookingSchema,
\* caught and replaced by BookingSchema.
LookupFailedError(schema) == IF schema = "BookingSchema" THEN "ValidationError" ELSE "MongoError"

\* doc.save() up to the hook's await: validation, then the pre-save hook as
\* far as its query.
BookingSaveBegin(b) ==
    /\ bdoc[b].pc = "idle"
    /\ LET d == Retouched(bdoc[b])
       IN  bdoc' = [bdoc EXCEPT ![b] =
                IF ~EmailValid(registered, d.email)
                THEN [d EXCEPT !.outcome = "failed", !.error = "ValidationError"]
                ELSE IF LooksUp(registered, d) THEN [d EXCEPT !.pc = "lookup"]
                ELSE [d EXCEPT !.pc = "persist", !.lookup = "skipped"]]
    /\ UNCHANGED <<connVars, registered, eventStore, bookingStore, edoc, pureVars>>

\* The query of the hook is answered (Event.exists / Event.findById), or it
\* throws; the hook goes on to the write or fails the save.
BookingLookup(b, answered) ==
    /\ bdoc[b].pc = "lookup"
    /\ bdoc' = [bdoc EXCEPT ![b] =
            IF ~answered
            THEN [@ EXCEPT !.pc = "idle", !.lookup = "threw", !.outcome = "failed",
                           !.error = LookupFailedError(registered)]
            ELSE IF eventStore[bdoc[b].eventId].present
            THEN [@ EXCEPT !.pc = "persist", !.lookup = "found"]
            ELSE [@ EXCEPT !.pc = "idle", !.lookup = "absent", !.outcome = "failed",
                           !.error = MissingEventError(registered)]]
    /\ UNCHANGED <<connVars, registered, eventStore, bookingStore, edoc, pureVars>>

\* The unique index uniq_event_email of BookingSchema: another stored Booking
\* holds the pair.
PairTaken(schema, b, d) ==
    /\ schema = "BookingSchema"
    /\ \E o \in BookingIds \ {b} :
           /\ bookingStore[o].present
           /\ bookingStore[o].eventId = d.eventId
           /\ bookingStore[o].email = d.email

\* The write of a save.
BookingPersist(b) ==
    /\ bdoc[b].pc = "persist"
    /\ IF PairTaken(registered, b, bdoc[b])
       THEN /\ bdoc' = [bdoc EXCEPT ![b] = [@ EXCEPT !.pc = "idle", !.outcome = "failed",
                            !.error = "ConstraintViolation"]]
            /\ UNCHANGED bookingStore
       ELSE /\ bookingStore' = [bookingStore EXCEPT ![b] = BookingFields(bdoc[b])]
            /\ bdoc' = [bdoc EXCEPT ![b] = [@ EXCEPT !.pc = "idle", !.outcome = "saved",
                            !.isNew = FALSE, !.modEventId = FALSE]]
    /\ UNCHANGED <<connVars, registered, eventStore, edoc, pureVars>>

(***************************************************************************)
(* String functions on their own                                           *)
(***************************************************************************)
NoResult == [done |-> FALSE, ok |-> FALSE, error |-> "", value |-> << >>]

\* The example title of the specification: "Hello, World!  2024".
ExampleTitle == <<"H","e","l","l","o",","," ","W","o","r","l","d","!"," "," ","2","0","2","4">>

TitleChars == {"a", "B", "1", "!", " ", "\t", "-"}
RECURSIVE StringsUpTo(_, _)
StringsUpTo(chars, n) ==
    IF n = 0 THEN {<< >>}
    ELSE LET shorter == StringsUpTo(chars, n - 1)
         IN  shorter \cup {Append(t, c) : t \in shorter, c \in chars}
TitleInputs == StringsUpTo(TitleChars, MaxTitleLen) \cup {ExampleTitle}

\* The slug step of the hook on a title.
ApplySlugify ==
    /\ ~res.done
    /\ res' = [done |-> TRUE, ok |-> TRUE, error |-> "", value |-> Slugify(arg)]
    /\ UNCHANGED <<connVars, dbVars, arg>>

\* Time inputs, by their parts: leading whitespace, hour digits, minute digits,
\* seconds, the gap before the meridiem, the meridiem.
HourDigits == {"0", "1", "2", "3", "4", "5", "9"}
HourParts == {<<a>> : a \in HourDigits} \cup {<<a, b>> : a \in HourDigits, b \in HourDigits}
             \cup {<<"1", "2", "3">>}
MinuteParts == {<<a, b>> : a \in {"0", "3", "5", "6"}, b \in {"0", "5", "9"}} \cup {<<"5">>}
SecondParts == {<< >>, <<":", "0", "7">>, <<":", "7">>}
GapParts == {<< >>, <<" ">>, <<" ", "\t">>}
MeridiemParts == {<< >>, <<"A","M">>, <<"P","M">>, <<"p","m">>, <<"a","M">>, <<"X","M">>}
TimeParts ==
    [lead : {<< >>, <<" ">>}, hours : HourParts, minutes : MinuteParts,
     seconds : SecondParts, gap : GapParts, meridiem : MeridiemParts]
TimeText(p) == p.lead \o p.hours \o <<":">> \o p.minutes \o p.seconds \o p.gap \o p.meridiem

\* The time step of the hook on a time string.
ApplyNormalizeTime ==
    /\ ~res.done
    /\ LET r == NormalizeTime(TimeText(arg))
       IN  res' = [done |-> TRUE, ok |-> r.ok, error |-> r.error, value |-> r.value]
    /\ UNCHANGED <<connVars, dbVars, arg>>

(***************************************************************************)
(* Specifications                                                          *)
(***************************************************************************)
DbInit(schemas) ==
    /\ registered \in schemas
    /\ eventStore = [e \in EventIds |-> NoEvent]
    /\ bookingStore = [b \in BookingIds |-> NoBooking]
    /\ bdoc = [b \in BookingIds |-> NoBookingDoc]
    /\ edoc = [e \in EventIds |-> NoEventDoc]

PureInit == arg = << >> /\ res = NoResult

\* connectToDatabase, called by MaxCallers callers.
InitConn == ConnInit /\ DbInit({"bookingSchema"}) /\ PureInit
NextConn ==
    \/ \E c \in Callers : Connect(c)
    \/ \E k \in 1..MaxCallers, o \in {"resolved", "rejected"} : Settle(k, o)
    \/ \E c \in Callers : Resume(c)
SpecConn == InitConn /\ [][NextConn]_vars

\* Event documents created, edited, saved and deleted.
EventTitleInputs == {<<"A", " ", "b">>, <<" ", "a", " ", " ", "b", "!">>, <<"c">>}
GoodDate == <<"2","0","2","5","-","0","3","-","0","5">>
BadDate == <<"n","o","p","e">>
FarDate == <<"+","0","1","0","0","0","0","-","0","1","-","0","1">>
GoodTime == <<"2",":","3","0"," ","P","M">>
BadTime == <<"1","4",":","6","5">>
DateTimeInputs == {<<GoodDate, GoodTime>>, <<BadDate, GoodTime>>, <<FarDate, BadTime>>,
                   <<FarDate, GoodTime>>}

\* The first Event takes every input; the second, the other record that may
\* hold a slug, takes one title and one date and time.
TitleInputsOf(e) == IF e = "e1" THEN EventTitleInputs ELSE {<<" ", "a", " ", " ", "b", "!">>}
DateTimeInputsOf(e) == IF e = "e1" THEN DateTimeInputs ELSE {<<GoodDate, GoodTime>>}

InitEvent == ConnInit /\ DbInit({"bookingSchema"}) /\ PureInit
NextEvent ==
    \/ \E e \in EventIds : \E t \in TitleInputsOf(e), dt \in DateTimeInputsOf(e) :
           NewEvent(e, t, dt[1], dt[2])
    \/ \E e \in EventIds : \E t \in TitleInputsOf(e), unmarks \in BOOLEAN :
           SetTitle(e, t, unmarks)
    \/ \E e \in EventIds : \E dt \in DateTimeInputsOf(e) : SetDateTime(e, dt[1], dt[2])
    \/ \E e \in EventIds : EventSaveBegin(e)
    \/ \E e \in EventIds : EventPersist(e)
    \/ \E e \in EventIds : DeleteEvent(e)
SpecEvent == InitEvent /\ [][NextEvent]_vars

\* Booking documents created, edited and saved, under either schema, while
\* Events are created, saved and deleted.
EventTitleOf(e) == IF e = "e1" THEN <<"a">> ELSE <<"b">>
EmailInputs == {<<"a","@","b",".","c">>, <<"A","@","B",".","c"," ">>,
                <<"d","@","b",".","c">>, <<"a","b">>}

\* Initially each Event is a new document whose save has passed the hook and
\* has its write ahead.
PendingEvent(e) ==
    [EventPreSave([NoEventDoc EXCEPT !.title = EventTitleOf(e), !.date = GoodDate,
                       !.time = GoodTime, !.isNew = TRUE, !.modTitle = TRUE,
                       !.titleAssigned = TRUE])
        EXCEPT !.pc = "persist"]
InitBooking ==
    /\ ConnInit /\ PureInit
    /\ registered \in Schemas
    /\ eventStore = [e \in EventIds |-> NoEvent]
    /\ bookingStore = [b \in BookingIds |-> NoBooking]
    /\ bdoc = [b \in BookingIds |-> NoBookingDoc]
    /\ edoc = [e \in EventIds |-> PendingEvent(e)]
NextBooking ==
    \/ \E e \in EventIds : EventPersist(e)
    \/ \E e \in EventIds : DeleteEvent(e)
    \/ \E b \in BookingIds, e \in EventIds, m \in EmailInputs : NewBooking(b, e, m)
    \/ \E b \in BookingIds, m \in EmailInputs : SetEmail(b, m)
    \/ \E b \in BookingIds, e \in EventIds : SetEventId(b, e)
    \/ \E b \in BookingIds : BookingSaveBegin(b)
    \/ \E b \in BookingIds, answered \in BOOLEAN : BookingLookup(b, answered)
    \/ \E b \in BookingIds : BookingPersist(b)
SpecBooking == InitBooking /\ [][NextBooking]_vars

\* The slug derivation applied to every title of TitleInputs.
InitSlug == ConnInit /\ DbInit({"bookingSchema"}) /\ arg \in TitleInputs /\ res = NoResult
NextSlug == ApplySlugify
SpecSlug == InitSlug /\ [][NextSlug]_vars

\* The time normalisation applied to every time of TimeParts.
InitTime == ConnInit /\ DbInit({"bookingSchema"}) /\ arg \in TimeParts /\ res = NoResult
NextTime == ApplyNormalizeTime
SpecTime == InitTime /\ [][NextTime]_vars

(***************************************************************************)
(* Properties: connection manager                                          *)
(***************************************************************************)
NoAttemptRejected == \A k \in DOMAIN attempts : attempts[k] # "rejected"
Returned(c) == calls[c].pc = "returned"

\* C1: as long as no connection attempt rejects, at most one attempt is ever
\* started whatever the number and interleaving of the calls, all calls that
\* returned hold the same handle, and a call made when a handle was cached
\* returned that handle and started no attempt.
ConnSingleAttempt ==
    NoAttemptRejected =>
        /\ Len(attempts) <= 1
        /\ \A c, d \in Callers : Returned(c) /\ Returned(d) => calls[c].result = calls[d].result
        /\ \A c \in Callers : Returned(c) => calls[c].result # None
        /\ \A c \in Callers :
               Returned(c) /\ calls[c].connAtCall # None =>
                   calls[c].result = calls[c].connAtCall /\ ~calls[c].started

\* Three calls have returned: the one that started the attempt, one that
\* awaited the attempt in flight, one that found the handle cached.
ConnSingleAttemptWitness ==
    \E c, d, f \in Callers :
        /\ Returned(c) /\ calls[c].started
        /\ Returned(d) /\ ~calls[d].started /\ calls[d].awaited # None
        /\ Returned(f) /\ calls[f].connAtCall # None

\* C2: when the attempt a call awaited has rejected and the call has failed
\* with that error, the cache no longer holds the rejected attempt, so that a
\* later call starts a new one.
FailureClearsPromise ==
    \A c \in Callers : calls[c].pc = "failed" => cached.promise # calls[c].error

(***************************************************************************)
(* Properties: Booking                                                     *)
(***************************************************************************)
BookingWritten(b) == bookingStore'[b] # bookingStore[b] /\ bookingStore'[b].present

\* C3: whenever a Booking is written, the Event its eventId names is in the
\* Event collection at that step.
BookingWriteReferencesEvent ==
    [][\A b \in BookingIds : BookingWritten(b) => eventStore[bookingStore'[b].eventId].present]_vars

\* C4: the save of a new Booking whose eventId names no stored Event fails
\* with an error named ValidationError and leaves no Booking in the collection:
\* so it is when the lookup has found no Event, and when the e-mail is invalid.
MissingEventIsValidationError ==
    \A b \in BookingIds :
        bdoc[b].isNew /\ bdoc[b].outcome = "failed"
            /\ (bdoc[b].lookup = "absent" \/ ~EmailValid(registered, bdoc[b].email)) =>
                bdoc[b].error = "ValidationError" /\ ~bookingStore[b].present

\* C5: the Booking collection never holds two Bookings with the same eventId
\* and e-mail: the second creation of a pair does not succeed.
OneBookingPerPair ==
    \A b, o \in BookingIds :
        /\ bookingStore[b].present /\ bookingStore[o].present
               /\ bookingStore[b].eventId = bookingStore[o].eventId
               /\ bookingStore[b].email = bookingStore[o].email => b = o

\* C10: the hook looks the Event up only for a Booking that is new or whose
\* eventId was modified; the save of a stored Booking with another field changed
\* reaches its write without a lookup.
LookupOnlyForNewOrModifiedEvent ==
    \A b \in BookingIds :
        /\ bdoc[b].pc = "lookup" => bdoc[b].isNew \/ bdoc[b].modEventId
        /\ bdoc[b].pc = "persist" =>
               (bdoc[b].lookup = "skipped" <=> ~(bdoc[b].isNew \/ bdoc[b].modEventId))

(***************************************************************************)
(* Properties: Event                                                       *)
(***************************************************************************)
\* YYYY-MM-DD and HH:MM, as shapes of strings.
IsYMD(s) ==
    /\ Len(s) = 10
    /\ AllDigits(SubSeq(s, 1, 4)) /\ s[5] = "-"
    /\ AllDigits(SubSeq(s, 6, 7)) /\ s[8] = "-"
    /\ AllDigits(SubSeq(s, 9, 10))
IsHHMM(s) ==
    /\ Len(s) = 5
    /\ AllDigits(SubSeq(s, 1, 2)) /\ s[3] = ":" /\ AllDigits(SubSeq(s, 4, 5))
    /\ ParseInt(SubSeq(s, 1, 2)) <= 23 /\ ParseInt(SubSeq(s, 4, 5)) <= 59

\* The step in which a save of e fails, and the one in which e is written.
EventSaveFails(e) == edoc'[e] # edoc[e] /\ edoc'[e].outcome = "failed"
EventWritten(e) == eventStore'[e] # eventStore[e] /\ eventStore'[e].present
\* The step in which a save of e runs the hook.
EventHookRuns(e) ==
    /\ edoc[e].pc = "idle" /\ edoc'[e] # edoc[e]
    /\ edoc'[e].pc = "persist" \/ edoc'[e].outcome = "failed"

\* The steps of the hook run in the order slug, date, time, and the hook ends
\* at the step that fails.
HookInOrder(d) ==
    /\ d.steps \in {<< >>, <<"date">>, <<"date", "time">>, <<"slug", "date">>,
                    <<"slug", "date", "time">>}
    /\ d.error = "Invalid date value" => d.steps[Len(d.steps)] = "date"
    /\ d.error \in {"Invalid time format", "Time out of range"} => d.steps[Len(d.steps)] = "time"
    /\ d.pc = "persist" => Len(d.steps) >= 2 /\ d.steps[Len(d.steps)] = "time"

\* A save that fails leaves the Event collection as it was, and the hook runs
\* its steps in order up to the first that fails.
EventSaveAbortsWhole ==
    [][\A e \in EventIds :
          /\ EventSaveFails(e) => eventStore' = eventStore
          /\ HookInOrder(edoc'[e])]_vars

\* C6: a save that fails leaves the Event collection as it was, the hook runs
\* its steps in order up to the first that fails, and an Event that is written
\* has its date as YYYY-MM-DD and its time as HH:MM.
EventSaveAtomicCanonical ==
    [][\A e \in EventIds :
          /\ EventSaveFails(e) => eventStore' = eventStore
          /\ HookInOrder(edoc'[e])
          /\ EventWritten(e) => IsYMD(eventStore'[e].date) /\ IsHHMM(eventStore'[e].time)]_vars

\* C8: a write of a stored Event whose title was not assigned since it was
\* loaded or last saved leaves its stored slug as it was, and the hook assigns
\* the slug only in the save of a document that is new or whose title is
\* modified.
SlugStableWithoutTitleChange ==
    [][\A e \in EventIds :
          /\ EventWritten(e) /\ eventStore[e].present /\ ~edoc[e].titleAssigned =>
                 eventStore'[e].slug = eventStore[e].slug
          /\ EventHookRuns(e) /\ edoc'[e].steps # << >> /\ edoc'[e].steps[1] = "slug" =>
                 edoc[e].isNew \/ edoc[e].modTitle]_vars

\* A stored Event has been saved again with its date changed and its title
\* not assigned: the hook ran without the slug step, the write happened, and
\* the slug stored is still the one derived from the title.
SlugStableWitness ==
    \E e \in EventIds :
        /\ edoc[e].outcome = "saved" /\ edoc[e].steps = <<"date", "time">>
        /\ eventStore[e].present /\ eventStore[e].slug = <<"a", "-", "b">>
        /\ eventStore[e].date = FarDate

(***************************************************************************)
(* Properties: string functions                                            *)
(***************************************************************************)
IsSlugChar(c) == IsLower(c) \/ IsDigit(c) \/ c = "-"
\* The number of hyphens of s.
Hyphens(s) == Cardinality({i \in DOMAIN s : s[i] = "-"})
\* The number of maximal runs of whitespace of s.
SpaceRuns(s) ==
    Cardinality({i \in DOMAIN s : IsSpace(s[i]) /\ (i = 1 \/ ~IsSpace(s[i - 1]))})

ExampleSlug == <<"h","e","l","l","o","-","w","o","r","l","d","-","2","0","2","4">>

\* C9, as amended: the slug holds only lowercase letters, digits and hyphens,
\* hence no whitespace; it has one hyphen for each hyphen of the title and one
\* for each whitespace run of the title as lowercased, stripped of the other
\* characters and trimmed; the example title gives hello-world-2024.
SlugWellFormed ==
    res.done =>
        /\ \A i \in DOMAIN res.value : IsSlugChar(res.value[i])
        /\ Hyphens(res.value) = Hyphens(arg) + SpaceRuns(Trim(StripNonSlug(ToLowerCase(arg))))
        /\ arg = ExampleTitle => res.value = ExampleSlug

\* C9, as stated: as above, with one hyphen for each whitespace run of the
\* trimmed title.
SlugHyphenPerTitleRun ==
    res.done =>
        /\ \A i \in DOMAIN res.value : IsSlugChar(res.value[i])
        /\ Hyphens(res.value) = Hyphens(arg) + SpaceRuns(Trim(arg))
        /\ arg = ExampleTitle => res.value = ExampleSlug

\* The example title has been turned into its slug.
SlugWitness == res.done /\ arg = ExampleTitle /\ res.value = ExampleSlug

\* What the claim says of a time given by its parts.
PartsMatch(p) ==
    /\ Len(p.hours) \in {1, 2} /\ Len(p.minutes) = 2
    /\ p.seconds = << >> \/ (Len(p.seconds) = 3 /\ AllDigits(Tail(p.seconds)))
    /\ ToUpperCase(p.meridiem) \in {<< >>, <<"A","M">>, <<"P","M">>}
ClaimedHour(p) ==
    LET h == ParseInt(p.hours)
        pm == ToUpperCase(p.meridiem) = <<"P","M">>
        am == ToUpperCase(p.meridiem) = <<"A","M">>
    IN  IF pm THEN (IF h = 12 THEN 12 ELSE h + 12)
        ELSE IF am THEN (IF h = 12 THEN 0 ELSE h)
        ELSE h
T(h, m) == <<DigitChars[(h \div 10) + 1], DigitChars[(h % 10) + 1], ":",
             DigitChars[(m \div 10) + 1], DigitChars[(m % 10) + 1]>>

\* C7: a time that matches the pattern (whitespace around it aside) has its
\* hour converted by the meridiem, fails with "Time out of range" if then the
\* hour is over 23 or the minute over 59, and is else rewritten as HH:MM with
\* both in range; a time that does not match fails with "Invalid time format".
TimeNormalized ==
    res.done =>
        /\ ~PartsMatch(arg) => ~res.ok /\ res.error = "Invalid time format"
        /\ PartsMatch(arg) /\ (ClaimedHour(arg) > 23 \/ ParseInt(arg.minutes) > 59) =>
               ~res.ok /\ res.error = "Time out of range"
        /\ PartsMatch(arg) /\ ClaimedHour(arg) <= 23 /\ ParseInt(arg.minutes) <= 59 =>
               /\ res.ok
               /\ res.value = T(ClaimedHour(arg), ParseInt(arg.minutes))
               /\ IsHHMM(res.value)
        /\ TimeText(arg) = <<"2",":","3","0"," ","P","M">> => res.value = T(14, 30)
        /\ TimeText(arg) = <<"1","2",":","0","0"," ","A","M">> => res.value = T(0, 0)
        /\ TimeText(arg) \in {<<"1","4",":","6","5">>, <<"2","5",":","0","0">>} => ~res.ok

\* "12:00 AM" has become "00:00".
TimeNormalizedWitness ==
    /\ res.done /\ res.ok
    /\ TimeText(arg) = <<"1","2",":","0","0"," ","A","M">>
    /\ res.value = <<"0","0",":","0","0">>

====
